---- MODULE Spec2Model ----
(***************************************************************************)
(* Model of epike_bus_dump.py: burst extraction from the sample stream,    *)
(* BPSK demodulation, frame parsing, multi-frame reassembly per device id  *)
(* and the command decoder.  Sample and byte values are naturals 0..255;   *)
(* positions inside a burst are 0-based as in the source, so sample i of   *)
(* the source is data[i + 1] here.                                         *)
(***************************************************************************)
EXTENDS Integers, Sequences, FiniteSets, TLC

(***************************************************************************)
(* Bounds of the model.                                                    *)
(***************************************************************************)
\* frames drawn in one run of the frame-level specification
MaxFrames == 3
\* chunk reads before the source reports end of stream
MaxReads == 10

(***************************************************************************)
(* Program constants.                                                      *)
(***************************************************************************)
SAMPLES_PER_SYMBOL == 10
ADC_SAMPLES_FOR_3_BYTE_MSG == 240
ADC_SAMPLES_FOR_TOO_LONG_MSG == 1600
CHUNK_SIZE == 32
NOISE_THRESHOLD_MAX == 136
NOISE_THRESHOLD_MIN == 119
\* dev_id = False
False_ == 0 - 1
\* dev_id_data_packet_complete = None
None_ == 0 - 1
\* a local of main() that no statement has assigned yet
Unbound == 0 - 1

(***************************************************************************)
(* Sequences and bytes.                                                    *)
(***************************************************************************)
Min2(a, b) == IF a < b THEN a ELSE b
Max2(a, b) == IF a > b THEN a ELSE b

\* Python slice s[a:b] for 0 <= a <= b, clipped to the length of s
Slice(s, a, b) == SubSeq(s, a + 1, Min2(b, Len(s)))

RECURSIVE Xor(_, _)
Xor(a, b) ==
    IF a = 0 THEN b
    ELSE IF b = 0 THEN a
    ELSE ((a + b) % 2) + 2 * Xor(a \div 2, b \div 2)

\* sum of s[a..b], by halves
RECURSIVE SumRange(_, _, _)
SumRange(s, a, b) ==
    IF a > b THEN 0
    ELSE IF a = b THEN s[a]
    ELSE SumRange(s, a, (a + b) \div 2) + SumRange(s, (a + b) \div 2 + 1, b)
SeqSum(s) == SumRange(s, 1, Len(s))

SetMin(S) == CHOOSE m \in S : \A o \in S : m <= o
SetMax(S) == CHOOSE m \in S : \A o \in S : m >= o
SeqMin(s) == SetMin({ s[i] : i \in 1..Len(s) })
SeqMax(s) == SetMax({ s[i] : i \in 1..Len(s) })

\* the first byte taken for the whole field
FromLittleLowByte(s) == IF s = << >> THEN 0 ELSE s[1]

\* int.from_bytes(s, byteorder='little')
RECURSIVE FromLittle(_)
FromLittle(s) == IF s = << >> THEN 0 ELSE s[1] + 256 * FromLittle(Tail(s))

\* int.from_bytes(s, byteorder='big')
RECURSIVE FromBig(_)
FromBig(s) ==
    IF s = << >> THEN 0 ELSE s[Len(s)] + 256 * FromBig(SubSeq(s, 1, Len(s) - 1))

(***************************************************************************)
(* Checksum: crcmod.mkCrcFun(0b100000111, initCrc=0x6f, xorOut=0,          *)
(* rev=False), an 8-bit CRC taken MSB first.                               *)
(***************************************************************************)
RECURSIVE CrcShift(_, _)
CrcShift(crc, n) ==
    IF n = 0 THEN crc
    ELSE CrcShift(IF crc >= 128 THEN Xor((crc * 2) % 256, 7) ELSE crc * 2, n - 1)

\* the 256-entry table crcmod steps through, one byte at a time
CrcTable == [c \in 0..255 |-> CrcShift(c, 8)]

RECURSIVE CrcFrom(_, _)
CrcFrom(crc, s) ==
    IF s = << >> THEN crc ELSE CrcFrom(CrcTable[Xor(crc, s[1])], Tail(s))

\* the same CRC with the register started at zero
CrcNoInit(s) == CrcFrom(0, s)

crc_func(s) == CrcFrom(\h6f, s)

\* the check applied from 3 bytes on
CrcTextFrom3(frame) ==
    IF Len(frame) < 3 THEN "N/A"
    ELSE IF crc_func(SubSeq(frame, 1, Len(frame) - 1)) = frame[Len(frame)] THEN "OK "
    ELSE "ERR"

\* "N/A", "OK " or "ERR" of lines 153-159
CrcText(frame) ==
    IF Len(frame) <= 3 THEN "N/A"
    ELSE IF crc_func(SubSeq(frame, 1, Len(frame) - 1)) = frame[Len(frame)] THEN "OK "
    ELSE "ERR"

(***************************************************************************)
(* Device id of a frame, False_ when no header rule matches.               *)
(***************************************************************************)
ResolveDevId(frame) ==
    IF Len(frame) >= 3
    THEN IF frame[1] = \hcc
         THEN IF frame[2] = \h40 THEN frame[3] % 64
              ELSE IF frame[2] \div 128 = 1 THEN frame[2] % 64
              ELSE False_
         ELSE IF frame[1] = \hce THEN frame[2] % 64
         ELSE False_
    ELSE False_

\* truth value of "if dev_id" / "if key": False, None and 0 are all false
Truthy(x) == x # False_ /\ x # 0

(***************************************************************************)
(* Burst extractor, lines 58-80.                                           *)
(***************************************************************************)
\* line 73: some sample lies outside the noise band
Active(chunk) ==
    SeqMin(chunk) < NOISE_THRESHOLD_MIN \/ SeqMax(chunk) > NOISE_THRESHOLD_MAX

\* the lower limit taken in symbols per byte-triple, the 8 bits per byte left out
InWindowNoBits(size) ==
    size >= ADC_SAMPLES_FOR_3_BYTE_MSG \div 8 /\ size < ADC_SAMPLES_FOR_TOO_LONG_MSG

\* line 77: the buffer length is that of a frame of 3 to 19 bytes
InWindow(size) ==
    size >= ADC_SAMPLES_FOR_3_BYTE_MSG /\ size < ADC_SAMPLES_FOR_TOO_LONG_MSG

(***************************************************************************)
(* Demodulator, lines 82-146.                                              *)
(***************************************************************************)
\* np.subtract(255, data)
Invert(x) == [i \in 1..Len(x) |-> 255 - x[i]]

\* last index of the run of equal samples that starts at l
PlateauEnd(x, l) ==
    CHOOSE r \in l..Len(x) :
        /\ r = Len(x) \/ x[r + 1] # x[l]
        /\ \A j \in l..(r - 1) : x[j + 1] = x[l]

\* scipy.signal.find_peaks(x, height=h) with h = 0.87 * top: the 0-based
\* positions of the local maxima (the middle of a flat top, rounded down;
\* never the first or the last sample) whose value is at least h
FindPeaks(x, top) ==
    { ((l - 1) + (PlateauEnd(x, l) - 1)) \div 2 :
        l \in { k \in 2..(Len(x) - 1) :
                  /\ x[k - 1] < x[k]
                  /\ PlateauEnd(x, k) < Len(x)
                  /\ x[PlateauEnd(x, k) + 1] < x[k]
                  /\ 100 * x[k] >= 87 * top } }

\* range(x_first, x_last, SAMPLES_PER_SYMBOL) as a sequence
SymbolPositions(x_first, x_last) ==
    [k \in 1..((x_last - x_first + SAMPLES_PER_SYMBOL - 1) \div SAMPLES_PER_SYMBOL)
        |-> x_first + (k - 1) * SAMPLES_PER_SYMBOL]

\* the comparison of line 131 turned round
SymbolBitAbove(y, mean) == IF y * mean.den > mean.num THEN 1 ELSE 0

\* line 131, bits.append(y < MEAN), as the bit np.packbits takes it for
SymbolBit(y, mean) == IF y * mean.den < mean.num THEN 1 ELSE 0

\* a packing that keeps whole bytes only
PackBitsWhole(b) ==
    [k \in 1..(Len(b) \div 8) |->
        128 * b[8 * k - 7] + 64 * b[8 * k - 6] + 32 * b[8 * k - 5]
        + 16 * b[8 * k - 4] + 8 * b[8 * k - 3] + 4 * b[8 * k - 2]
        + 2 * b[8 * k - 1] + b[8 * k]]

\* np.packbits(bits): MSB first, the last byte filled up with zero bits
PackBits(b) ==
    LET bit(j) == IF j <= Len(b) THEN b[j] ELSE 0
    IN  [k \in 1..((Len(b) + 7) \div 8) |->
            128 * bit(8 * k - 7) + 64 * bit(8 * k - 6) + 32 * bit(8 * k - 5)
            + 16 * bit(8 * k - 4) + 8 * bit(8 * k - 3) + 4 * bit(8 * k - 2)
            + 2 * bit(8 * k - 1) + bit(8 * k)]

\* Lines 109-146 on one burst, given the locals of lines 82-99.  error is
\* "IndexError" when peaks_hi[0] or peaks_lo[0] indexes an empty array,
\* "TypeError" when np.packbits is given an empty list (an array of floats).
Demod(burst, mean, inv, peaks_hi, peaks_lo) ==
    IF peaks_hi = {} \/ peaks_lo = {}
    THEN [error |-> "IndexError", data |-> burst, peaks |-> << >>,
          bits |-> << >>, frame |-> << >>]
    ELSE
    LET signal == IF SetMin(peaks_hi) < SetMin(peaks_lo) THEN inv ELSE burst
        x_first == Min2(SetMin(peaks_hi), SetMin(peaks_lo))
        x_last == Max2(SetMax(peaks_hi), SetMax(peaks_lo))
        pos == SymbolPositions(x_first, x_last)
        all == [k \in 1..Len(pos) |-> SymbolBit(signal[pos[k] + 1], mean)]
        rest == SubSeq(all, 2, Len(all))
    IN  [error |-> IF rest = << >> THEN "TypeError" ELSE "",
         data |-> signal, peaks |-> pos, bits |-> rest,
         frame |-> IF rest = << >> THEN << >> ELSE PackBits(rest)]

(***************************************************************************)
(* The device-id -> message mapping data_packets: a function whose domain  *)
(* is the set of keys present.                                             *)
(***************************************************************************)
EmptyPackets == [k \in {} |-> << >>]
Put(m, k, v) == [x \in (DOMAIN m) \cup {k} |-> IF x = k THEN v ELSE m[x]]
Del(m, k) == [x \in (DOMAIN m) \ {k} |-> m[x]]

(***************************************************************************)
(* Reassembly, lines 180-212.  The result holds the mapping, the completed *)
(* key and the three header locals as the statement leaves them; hdr is    *)
(* the value the locals had before the frame.                              *)
(***************************************************************************)
FrameTypeStr(frame_type) ==
    CASE frame_type = 0 -> "CF"
      [] frame_type = 1 -> "LF"
      [] frame_type = 2 -> "FF"
      [] frame_type = 3 -> "SF"

\* the match statement with a default payload for a device not yet seen
ReassembleFrameOpening(packets, id, frame, hdr) ==
    LET frame_type == (frame[4] \div 64) % 4
        part == Slice(frame, 4, 7)
        sofar == IF id \in DOMAIN packets THEN packets[id] ELSE << >>
        newhdr == [frame_type_str |-> FrameTypeStr(frame_type),
                   counter |-> frame[4] % 32,
                   reserved |-> (frame[4] \div 32) % 2]
    IN  CASE frame_type = 0 ->
               [packets |-> Put(packets, id, sofar \o part),
                complete |-> None_, hdr |-> newhdr]
          [] frame_type = 1 ->
               [packets |-> Put(packets, id, sofar \o part),
                complete |-> id, hdr |-> newhdr]
          [] frame_type = 2 ->
               [packets |-> Put(packets, id, part),
                complete |-> None_, hdr |-> newhdr]
          [] frame_type = 3 ->
               [packets |-> Put(packets, id, part),
                complete |-> id, hdr |-> newhdr]

\* lines 184-212: the header fields and the match on the frame type
ReassembleFrame(packets, id, frame, hdr) ==
    LET frame_type == (frame[4] \div 64) % 4
        part == Slice(frame, 4, 7)
        present == id \in DOMAIN packets
        newhdr == [frame_type_str |-> FrameTypeStr(frame_type),
                   counter |-> frame[4] % 32,
                   reserved |-> (frame[4] \div 32) % 2]
    IN  CASE frame_type = 0 ->
               [packets |-> IF present THEN Put(packets, id, packets[id] \o part)
                            ELSE packets,
                complete |-> None_, hdr |-> newhdr]
          [] frame_type = 1 ->
               [packets |-> IF present THEN Put(packets, id, packets[id] \o part)
                            ELSE packets,
                complete |-> IF present THEN id ELSE None_, hdr |-> newhdr]
          [] frame_type = 2 ->
               [packets |-> Put(packets, id, part),
                complete |-> None_, hdr |-> newhdr]
          [] frame_type = 3 ->
               [packets |-> Put(packets, id, part),
                complete |-> id, hdr |-> newhdr]

\* reassembly held back for a frame whose checksum is wrong
ReassembleCrcGated(packets, id, frame, hdr) ==
    IF Truthy(id) /\ Len(frame) = 8 /\ CrcText(frame) # "ERR"
    THEN ReassembleFrame(packets, id, frame, hdr)
    ELSE [packets |-> packets, complete |-> None_, hdr |-> hdr]

\* lines 182-212
Reassemble(packets, id, frame, hdr) ==
    IF Truthy(id) /\ Len(frame) = 8
    THEN ReassembleFrame(packets, id, frame, hdr)
    ELSE [packets |-> packets, complete |-> None_, hdr |-> hdr]

(***************************************************************************)
(* Frame log, lines 214-244.                                               *)
(***************************************************************************)
MSG_FILTER ==
    { <<\hcf, \h7f, \h81>>, <<\hcc, \h80, \h9a>>, <<\hcc, \h8d, \h01>>,
      <<\hcc, \h93, \h01>>, <<\hcf, \h7f, \h80>>, <<\hcc, \h80, \ha6>> }

Filtered(frame) == Slice(frame, 0, 3) \in MSG_FILTER

\* the [demod] line: << >> when nothing is printed.  ok is FALSE when the
\* print statement reads a local that was never assigned.
FrameLog(frame, id, hdr) ==
    LET shown == IF id = False_ THEN 0 ELSE id
    IN  IF Filtered(frame) THEN [ok |-> TRUE, line |-> << >>]
        ELSE IF Len(frame) < 8
        THEN [ok |-> TRUE,
              line |-> << [id |-> shown, crc |-> CrcText(frame), frame |-> frame,
                           ext |-> << >>] >>]
        ELSE IF hdr.frame_type_str = "unbound"
        THEN [ok |-> FALSE, line |-> << >>]
        ELSE [ok |-> TRUE,
              line |-> << [id |-> shown, crc |-> CrcText(frame), frame |-> frame,
                           ext |-> << hdr >>] >>]

(***************************************************************************)
(* Frame decoder, lines 246-434.                                           *)
(***************************************************************************)
Cmd(key, payload) == key * 65536 + FromBig(Slice(payload, 0, 2))

\* the known static frames and the payload each is compared with
StaticCmds == {\h0d4a0c, \h1a0102, \h260102, \h3f0200, \h3f0208}

StaticBytes(cmd) ==
    CASE cmd = \h0d4a0c -> <<\h4a, \h0c, \hff>>
      [] cmd = \h1a0102 -> <<\h01, \h02, \hff>>
      [] cmd = \h260102 -> <<\h01, \h02, \hff>>
      [] cmd = \h3f0200 -> <<\h02, \h00, \h40>>
      [] cmd = \h3f0208 -> <<\h02, \h08, \h01>>

\* the case of "match cmd" a command key selects
Rule(cmd) ==
    CASE cmd \in StaticCmds -> "static"
      [] cmd \in {\h0d1638, \h1a163a} -> "max speed"
      [] cmd \in {\h3f4a00, \h1a4a0e} -> "datetime"
      [] cmd \in {\h0d1620, \h1a1622} -> "range"
      [] cmd \in {\h0d3c08, \h1a3c0a} -> "speed"
      [] cmd \in {\h0d4808, \h1a480a} -> "DST (trip distance)"
      [] cmd \in {\h0d4828, \h1a482a} -> "ODO (total distance)"
      [] cmd \in {\h0d3848, \h1a384a} -> "cadence"
      [] cmd \in {\h0d1628, \h1a162a} -> "trip time"
      [] cmd \in {\h0d1630, \h1a1632} -> "avg speed"
      [] cmd \in {\h0d1600, \h1a1602} -> "assist mode"
      [] cmd \in {\h0d1660, \h1a1662, \h131660, \h261662} -> "walk mode"
      [] cmd \in {\h0d0400, \h260400} -> "switch"
      [] cmd \in {\h0d2640, \h1a2642} -> "battery"
      [] OTHER -> "unknown"

\* '{:.1f}'.format(v / 10) as << integer part, first decimal >>
Tenths(v) == << v \div 10, v % 10 >>

\* the numbers a telemetry rule prints
Values(rule, p) ==
    CASE rule \in {"max speed", "speed", "avg speed"} ->
            Tenths(FromLittle(Slice(p, 2, 4)))
      [] rule = "datetime" ->
            << FromLittle(Slice(p, 2, 3)) + 2000, FromLittle(Slice(p, 3, 4)),
               FromLittle(Slice(p, 4, 5)), FromLittle(Slice(p, 5, 6)),
               FromLittle(Slice(p, 6, 7)), FromLittle(Slice(p, 7, 8)) >>
      [] rule = "range" ->
            << FromLittle(Slice(p, 2, 4)), FromLittle(Slice(p, 4, 6)),
               FromLittle(Slice(p, 6, 8)) >>
      [] rule \in {"DST (trip distance)", "ODO (total distance)", "trip time"} ->
            << FromLittle(Slice(p, 2, 6)) >>
      [] rule = "cadence" -> << FromLittle(Slice(p, 4, 5)) >>
      [] rule = "assist mode" -> << FromLittle(Slice(p, 2, 4)) >>
      [] rule \in {"walk mode", "battery"} -> << FromLittle(Slice(p, 2, 3)) >>

\* the switch message: str0 from bit 0, str1 from bits [5:4]; no case of
\* the inner match assigns str1 for the value 3
SwitchStr0(b) == IF b % 2 = 1 THEN "lower" ELSE "upper"
SwitchStr1(b, old) ==
    CASE (b \div 16) % 4 = 0 -> "pressed"
      [] (b \div 16) % 4 = 1 -> "released from hold"
      [] (b \div 16) % 4 = 2 -> "keep hold down"
      [] OTHER -> old

Line(kind, text, vals, strs) ==
    [kind |-> kind, text |-> text, vals |-> vals, strs |-> strs]

\* The decoder on a completed key: the [decod] lines it prints, the mapping
\* and str1 as it leaves them, whether it ran to its end, and the path taken:
\* "idle" (no completed key), "static" (a static frame matched: continue),
\* "none" (a static key whose payload differs: no statement runs),
\* "telemetry", "unknown", or "error" (a read of the unassigned str1).
DecodeKey(packets, key, old_str1) ==
    LET p == packets[key]
        cmd == Cmd(key, p)
        rule == Rule(cmd)
        packet == Line("packet", "packet", p, << >>)
    IN  CASE rule = "static" ->
                \* "continue" on a match, nothing at all otherwise: the entry
                \* stays in the mapping either way
                [lines |-> << packet >>, packets |-> packets,
                 str1 |-> old_str1, ok |-> TRUE,
                 outcome |-> IF p = StaticBytes(cmd) THEN "static" ELSE "none"]
          [] rule = "unknown" ->
                [lines |-> << packet, Line("unknown", "unknown", p, << >>) >>,
                 packets |-> Del(packets, key), str1 |-> old_str1, ok |-> TRUE,
                 outcome |-> "unknown"]
          [] rule = "switch" ->
                LET s1 == SwitchStr1(p[3], old_str1)
                IN  IF s1 = "unbound"
                    THEN [lines |-> << packet >>, packets |-> packets,
                          str1 |-> s1, ok |-> FALSE, outcome |-> "error"]
                    ELSE [lines |-> << packet,
                                       Line("telemetry", "switch", << >>,
                                            << SwitchStr0(p[3]), s1 >>) >>,
                          packets |-> Del(packets, key), str1 |-> s1, ok |-> TRUE,
                          outcome |-> "telemetry"]
          [] OTHER ->
                [lines |-> << packet,
                              Line("telemetry", rule, Values(rule, p), << >>) >>,
                 packets |-> Del(packets, key), str1 |-> old_str1, ok |-> TRUE,
                 outcome |-> "telemetry"]

\* a decoder that passes over the keys of the static frames
DecodeKnownOnly(packets, key, old_str1) ==
    IF ~Truthy(key) \/ Rule(Cmd(key, packets[key])) = "static"
    THEN [lines |-> << >>, packets |-> packets, str1 |-> old_str1, ok |-> TRUE,
          outcome |-> "idle"]
    ELSE DecodeKey(packets, key, old_str1)

\* lines 248-434: nothing unless the completed key is true
Decode(packets, key, old_str1) ==
    IF ~Truthy(key)
    THEN [lines |-> << >>, packets |-> packets, str1 |-> old_str1, ok |-> TRUE,
          outcome |-> "idle"]
    ELSE DecodeKey(packets, key, old_str1)

(***************************************************************************)
(* State.  The locals of main() keep their values from one pass of the     *)
(* outer loop to the next, so each is a variable.                          *)
(***************************************************************************)
VARIABLES
    pc,             \* "read" (line 67), "demod" (line 82), "parse" (line 149),
                    \* "exit" (line 72), "crash" (an uncaught exception)
    error,          \* the exception that ended the run, "" if none
    stream_end,     \* the source has no more samples: the next read is empty
    nread,          \* chunks read so far
    nframes,        \* frames drawn so far in the frame-level specification
    buf,            \* the chunk last read
    data,           \* the accumulated buffer, then the burst being demodulated
    MEAN,           \* the burst mean as [num, den]
    data_inv,       \* 255 - sample, for every sample of the burst as captured
    peaks,          \* positions sampled by the symbol loop
    bits,           \* the decoded bits, after the start-of-frame bit is removed
    data_frame,     \* the demodulated frame
    count_msg,
    count_crc_err,
    data_packets,   \* device id -> payload so far
    dev_id,
    dev_id_data_packet_complete,
    frame_type_str, counter, reserved,
    str1,
    demod_line,     \* the [demod] line of the last frame, << >> if none
    decod_lines,    \* the [decod] lines of the last frame
    outcome,        \* the decoder's path on the last frame
    summary,        \* << total msg count, CRC error msg count >> once printed
    ff_hist,        \* history: per device id, bytes[4:7] of its latest
                    \* FirstFrame followed by those of the ConsecutiveFrames
                    \* received since; no entry before the first FirstFrame
    run,            \* history: the chunks read since the last quiet chunk,
                    \* joined; closed once a quiet chunk has ended them
    hist_frames,    \* history: frames the demodulator has produced
    hist_mismatch,  \* history: frames longer than 3 bytes, parsed so far,
                    \* whose last byte is not the CRC of the bytes before it
    completed,      \* history: [id, payload] of every message completed by
                    \* the reassembler, in order
    decoded         \* history: [id, payload] of every message the decoder
                    \* has printed a packet line for, in order

vars == << pc, error, stream_end, nread, nframes, buf, data, MEAN, data_inv,
           peaks, bits, data_frame, count_msg, count_crc_err, data_packets, dev_id,
           dev_id_data_packet_complete, frame_type_str, counter, reserved, str1,
           demod_line, decod_lines, outcome, summary, ff_hist, run,
           hist_frames, hist_mismatch, completed, decoded >>

\* the history variables no statement of the program reads
history == << run, hist_frames, hist_mismatch, completed, decoded >>

\* the locals of the demodulator
demod_locals == << MEAN, data_inv, peaks, bits >>

\* the locals of the parser, the reassembler, the log and the decoder
parse_locals == << count_crc_err, data_packets, dev_id,
                   dev_id_data_packet_complete, frame_type_str, counter,
                   reserved, str1, demod_line, decod_lines, outcome, ff_hist >>

Init ==
    /\ pc = "read"
    /\ error = ""
    /\ stream_end = FALSE
    /\ nread = 0
    /\ nframes = 0
    /\ buf = << >>
    /\ data = << >>
    /\ MEAN = [num |-> 0, den |-> 1]
    /\ data_inv = << >>
    /\ peaks = << >>
    /\ bits = << >>
    /\ data_frame = << >>
    /\ count_msg = 0
    /\ count_crc_err = 0
    /\ data_packets = EmptyPackets
    /\ dev_id = False_
    /\ dev_id_data_packet_complete = None_
    /\ frame_type_str = "unbound"
    /\ counter = Unbound
    /\ reserved = Unbound
    /\ str1 = "unbound"
    /\ demod_line = << >>
    /\ decod_lines = << >>
    /\ outcome = "idle"
    /\ summary = << >>
    /\ ff_hist = EmptyPackets
    /\ run = [chunks |-> << >>, closed |-> FALSE]
    /\ hist_frames = 0
    /\ hist_mismatch = 0
    /\ completed = << >>
    /\ decoded = << >>

\* the bits of a byte sequence, MSB first
MsgBits(s) ==
    [j \in 1..(8 * Len(s)) |-> (s[(j - 1) \div 8 + 1] \div (2 ^ (7 - ((j - 1) % 8)))) % 2]

\* x^8 + x^2 + x + 1, highest power first
PolyBits == << 1, 0, 0, 0, 0, 0, 1, 1, 1 >>

\* remainder of the bit string b (a polynomial over GF(2)) divided by
\* PolyBits, from position i on: the last 8 bits once no higher bit is set
RECURSIVE PolyRem(_, _)
PolyRem(b, i) ==
    IF i > Len(b) - 8
    THEN LET r(k) == b[Len(b) - 8 + k]
         IN  128 * r(1) + 64 * r(2) + 32 * r(3) + 16 * r(4)
             + 8 * r(5) + 4 * r(6) + 2 * r(7) + r(8)
    ELSE IF b[i] = 0 THEN PolyRem(b, i + 1)
    ELSE PolyRem([j \in 1..Len(b) |->
                    IF j >= i /\ j <= i + 8 THEN (b[j] + PolyBits[j - i + 1]) % 2
                    ELSE b[j]], i + 1)

\* the CRC as a polynomial remainder: the message with 0x6f added into its
\* first byte, times x^8, modulo x^8 + x^2 + x + 1
RefCrc(s) ==
    IF s = << >> THEN \h6f
    ELSE PolyRem(MsgBits([s EXCEPT ![1] = Xor(s[1], \h6f)])
                 \o << 0, 0, 0, 0, 0, 0, 0, 0 >>, 1)

\* the frame is longer than 3 bytes and its last byte is not that CRC
RefMismatch(frame) ==
    Len(frame) > 3 /\ RefCrc(SubSeq(frame, 1, Len(frame) - 1)) # frame[Len(frame)]

\* ff_hist after a frame: only frames that reach the reassembler count
NextHist(hist, id, frame) ==
    IF Truthy(id) /\ Len(frame) = 8
    THEN LET frame_type == (frame[4] \div 64) % 4
         IN  CASE frame_type = 2 -> Put(hist, id, Slice(frame, 4, 7))
               [] frame_type = 0 /\ id \in DOMAIN hist ->
                     Put(hist, id, hist[id] \o Slice(frame, 4, 7))
               [] OTHER -> hist
    ELSE hist

(***************************************************************************)
(* Lines 149-434: checksum, device id, reassembly, frame log and decoder   *)
(* for the frame just demodulated, then back to the head of the loop       *)
(* (lines 62-64).  An unassigned local read by a print ends the run with   *)
(* what was done before it kept.                                           *)
(***************************************************************************)
ProcessFrame ==
    /\ pc = "parse"
    /\ \E crc_text \in {CrcText(data_frame)}, id \in {ResolveDevId(data_frame)},
          hdr \in {[frame_type_str |-> frame_type_str, counter |-> counter,
                    reserved |-> reserved]} :
       \E r \in {Reassemble(data_packets, id, data_frame, hdr)} :
       \E lg \in {FrameLog(data_frame, id, r.hdr)} :
       \E d \in {IF lg.ok THEN Decode(r.packets, r.complete, str1)
                  ELSE [lines |-> << >>, packets |-> r.packets, str1 |-> str1,
                        ok |-> FALSE, outcome |-> "idle"]} :
           /\ count_crc_err' = IF crc_text = "ERR" THEN count_crc_err + 1
                               ELSE count_crc_err
           /\ dev_id' = id
           /\ dev_id_data_packet_complete' = r.complete
           /\ frame_type_str' = r.hdr.frame_type_str
           /\ counter' = r.hdr.counter
           /\ reserved' = r.hdr.reserved
           /\ demod_line' = lg.line
           /\ decod_lines' = d.lines
           /\ outcome' = d.outcome
           /\ data_packets' = d.packets
           /\ str1' = d.str1
           /\ ff_hist' = NextHist(ff_hist, id, data_frame)
           /\ pc' = IF lg.ok /\ d.ok THEN "read" ELSE "crash"
           /\ error' = IF lg.ok /\ d.ok THEN "" ELSE "UnboundLocalError"
           /\ data' = IF lg.ok /\ d.ok THEN << >> ELSE data
           /\ buf' = IF lg.ok /\ d.ok THEN << >> ELSE buf
           /\ completed' = IF Truthy(r.complete)
                            THEN Append(completed, [id |-> r.complete,
                                                    payload |-> r.packets[r.complete]])
                            ELSE completed
           /\ decoded' = IF d.lines # << >>
                          THEN Append(decoded, [id |-> r.complete,
                                                payload |-> d.lines[1].vals])
                          ELSE decoded
    /\ \E m \in {RefMismatch(data_frame)} :
           hist_mismatch' = IF m THEN hist_mismatch + 1 ELSE hist_mismatch
    /\ UNCHANGED << stream_end, nread, nframes, demod_locals, data_frame,
                    count_msg, summary, run, hist_frames >>

(***************************************************************************)
(* Lines 69-72: an empty read prints the two counters and exits.           *)
(***************************************************************************)
\* an end of input that hands a pending buffer of burst length on
EndOfStreamFlushing ==
    /\ pc = "read"
    /\ pc' = IF InWindow(Len(data)) THEN "demod" ELSE "exit"
    /\ buf' = << >>
    /\ summary' = IF InWindow(Len(data)) THEN summary
                  ELSE << count_msg, count_crc_err >>
    /\ UNCHANGED << error, stream_end, nread, nframes, data, demod_locals,
                    data_frame, count_msg, parse_locals, history >>

EndOfStream ==
    /\ pc = "read"
    /\ pc' = "exit"
    /\ buf' = << >>
    /\ summary' = << count_msg, count_crc_err >>
    /\ UNCHANGED << error, stream_end, nread, nframes, data, demod_locals,
                    data_frame, count_msg, parse_locals, history >>

(***************************************************************************)
(* Frame-level specification.  The extractor and the demodulator (lines    *)
(* 62-147) hand the parser one frame per burst; here the frame is drawn    *)
(* from Frames, every byte sequence of which a burst can demodulate to.    *)
(***************************************************************************)
\* an 8-byte frame with a matching checksum
Frame8(header, type_byte, payload) ==
    LET body == header \o << type_byte >> \o payload
    IN  body \o << crc_func(body) >>

\* the same frame with its checksum byte spoilt
BadCrc(frame) ==
    [frame EXCEPT ![Len(frame)] = (frame[Len(frame)] + 1) % 256]

Bcast0d == <<\hcc, \h40, \h0d>>
Reply1a == <<\hce, \h1a, \h00>>

Frames ==
    { \* device 0x0d, normal broadcast: single frames
      Frame8(Bcast0d, \hc0, <<\h4a, \h0c, \hff>>),   \* static, expected bytes
      Frame8(Bcast0d, \hc0, <<\h4a, \h0c, \h00>>),   \* static key, other bytes
      Frame8(Bcast0d, \hc0, <<\h26, \h40, \h64>>),   \* battery
      Frame8(Bcast0d, \hc0, <<\h99, \h98, \h97>>),   \* unknown key
      Frame8(Bcast0d, \hc0, <<\h04, \h00, \h30>>),   \* switch, bits [5:4] = 3
      Frame8(Bcast0d, \hc0, <<\h04, \h00, \h01>>),   \* switch, lower pressed
      BadCrc(Frame8(Bcast0d, \hc0, <<\h26, \h40, \h64>>)),
      \* device 0x0d: first, consecutive, last
      Frame8(Bcast0d, \h80, <<\h3c, \h08, \h1a>>),
      Frame8(Bcast0d, \h01, <<\h02, \h00, \hfe>>),
      Frame8(Bcast0d, \h42, <<\h11, \h12, \h13>>),
      \* device 0x1a, remote transmission reply: first, last
      Frame8(Reply1a, \h80, <<\h4a, \h0e, \h18>>),
      Frame8(Reply1a, \h41, <<\h0c, \h0c, \h00>>),
      \* remote transmission request header cc 8d: id 0x0d, and the first
      \* three bytes are a filter signature
      Frame8(<<\hcc, \h8d, \h01>>, \hc0, <<\h26, \h40, \h64>>),
      \* headers that resolve to id 0
      Frame8(<<\hcc, \h40, \h00>>, \hc0, <<\h99, \h98, \h97>>),
      \* no header rule matches
      <<\h00, \h11, \h22, \h33, \h44, \h55, \h66, \h77>>,
      \* other lengths
      <<\hcf, \h7f, \h81>>,
      <<\hcc, \h40, \h0d>>,
      <<\hcc>>,
      Frame8(Bcast0d, \hc0, <<\h26, \h40, \h64>>) \o <<\h00>> }

\* lines 62-147 for one burst, seen from the parser: a frame and count_msg
NextFrame(f) ==
    /\ pc = "read"
    /\ nframes < MaxFrames
    /\ nframes' = nframes + 1
    /\ data_frame' = f
    /\ count_msg' = count_msg + 1
    /\ pc' = "parse"
    /\ hist_frames' = hist_frames + 1
    /\ UNCHANGED << error, stream_end, nread, buf, data, demod_locals,
                    parse_locals, summary, run, hist_mismatch, completed,
                    decoded >>

Next ==
    \/ \E f \in Frames : NextFrame(f)
    \/ ProcessFrame
    \/ EndOfStream

Spec == Init /\ [][Next]_vars

(***************************************************************************)
(* Sample-level specification: the whole loop of main(), fed chunk by      *)
(* chunk.  The source delivers 32-sample chunks; only its last chunk may   *)
(* be shorter, and the read after that one is empty.                       *)
(***************************************************************************)
\* a crest falling to a trough; with 28 idle samples its mean is 137
Pulse == << 255, 251, 222, 100 >>

\* the idle level: inside the noise band
QuietChunk == [i \in 1..CHUNK_SIZE |-> 127]
\* one pulse, then the idle level
PulseChunk == [i \in 1..CHUNK_SIZE |-> IF i <= 4 THEN Pulse[i] ELSE 127]
\* a level outside the noise band, with no peak in it
FlatChunk == [i \in 1..CHUNK_SIZE |-> 137]
\* the last, short read of a stream whose length is no multiple of 32
ShortChunk == [i \in 1..(CHUNK_SIZE \div 2) |-> IF i <= 4 THEN Pulse[i] ELSE 127]

Chunks == { QuietChunk, PulseChunk, FlatChunk, ShortChunk }

\* every sample of the chunk lies inside the noise band
Quiet(chunk) ==
    \A i \in 1..Len(chunk) :
        chunk[i] >= NOISE_THRESHOLD_MIN /\ chunk[i] <= NOISE_THRESHOLD_MAX

\* run after one more chunk
NextRun(r, chunk) ==
    LET base == IF r.closed THEN << >> ELSE r.chunks
    IN  IF Quiet(chunk) THEN [chunks |-> base, closed |-> TRUE]
        ELSE [chunks |-> base \o chunk, closed |-> FALSE]

\* the read loop without the reset of line 80
ReadChunkKeeping(chunk) ==
    /\ pc = "read"
    /\ ~stream_end
    /\ nread < MaxReads
    /\ nread' = nread + 1
    /\ buf' = chunk
    /\ stream_end' = (Len(chunk) < CHUNK_SIZE)
    /\ run' = NextRun(run, chunk)
    /\ UNCHANGED << hist_frames, hist_mismatch, completed, decoded >>
    /\ IF Active(chunk)
       THEN data' = data \o chunk /\ pc' = "read"
       ELSE IF InWindow(Len(data))
       THEN data' = data /\ pc' = "demod"
       ELSE data' = data /\ pc' = "read"
    /\ UNCHANGED << error, nframes, demod_locals, data_frame, count_msg,
                    parse_locals, summary >>

\* lines 67-80 for a non-empty read
ReadChunk(chunk) ==
    /\ pc = "read"
    /\ ~stream_end
    /\ nread < MaxReads
    /\ nread' = nread + 1
    /\ buf' = chunk
    /\ stream_end' = (Len(chunk) < CHUNK_SIZE)
    /\ run' = NextRun(run, chunk)
    /\ UNCHANGED << hist_frames, hist_mismatch, completed, decoded >>
    /\ IF Active(chunk)
       THEN data' = data \o chunk /\ pc' = "read"
       ELSE IF InWindow(Len(data))
       THEN data' = data /\ pc' = "demod"
       ELSE data' = << >> /\ pc' = "read"
    /\ UNCHANGED << error, nframes, demod_locals, data_frame, count_msg,
                    parse_locals, summary >>

\* lines 82-147 on the burst the extractor broke out with
Demodulate ==
    /\ pc = "demod"
    /\ \E PEAK_MIN \in {SeqMin(data)}, PEAK_MAX \in {SeqMax(data)},
          mean \in {[num |-> SeqSum(data), den |-> Len(data)]},
          inv \in {Invert(data)} :
       \E peaks_hi \in {FindPeaks(data, PEAK_MAX)},
          peaks_lo \in {FindPeaks(inv, 255 - PEAK_MIN)} :
       \E d \in {Demod(data, mean, inv, peaks_hi, peaks_lo)} :
           /\ MEAN' = mean
           /\ data_inv' = inv
           /\ data' = d.data
           /\ peaks' = d.peaks
           /\ bits' = d.bits
           /\ error' = d.error
           /\ IF d.error = ""
              THEN /\ data_frame' = d.frame
                   /\ count_msg' = count_msg + 1
                   /\ pc' = "parse"
              ELSE /\ UNCHANGED << data_frame, count_msg >>
                   /\ pc' = "crash"
           /\ hist_frames' = IF d.error = "" THEN hist_frames + 1 ELSE hist_frames
    /\ UNCHANGED << stream_end, nread, nframes, buf, parse_locals, summary,
                    run, hist_mismatch, completed, decoded >>

NextSamples ==
    \/ \E chunk \in Chunks : ReadChunk(chunk)
    \/ EndOfStream
    \/ Demodulate
    \/ ProcessFrame

SpecSamples == Init /\ [][NextSamples]_vars

(***************************************************************************)
(* A run seen in two parts: its first bursts as the frames they demodulate *)
(* to, here the frames of multi-frame messages, which open entries in the  *)
(* mapping; then the rest of the stream chunk by chunk.                    *)
(***************************************************************************)
\* the First, Consecutive and Last frames among Frames
MultiFrames ==
    { f \in Frames : /\ Len(f) = 8
                     /\ Truthy(ResolveDevId(f))
                     /\ (f[4] \div 64) % 4 # 3 }

TailChunks == { QuietChunk, PulseChunk, ShortChunk }

NextTail ==
    \/ \E f \in MultiFrames : nread = 0 /\ NextFrame(f)
    \/ \E chunk \in TailChunks : ReadChunk(chunk)
    \/ Demodulate
    \/ ProcessFrame
    \/ EndOfStream

SpecTail == Init /\ [][NextTail]_vars

(***************************************************************************)
(* Properties of the frame-level specification.                            *)
(***************************************************************************)
\* the frame in data_frame has been through ProcessFrame
Processed == pc \in {"read", "crash"} /\ data_frame # << >>

FrameType(frame) == (frame[4] \div 64) % 4

\* C1: once a message has completed for device d and been handed to the
\* decoder, the mapping holds no entry for d when the next burst is awaited,
\* whatever the command key.
C1_CompletedMessageRemoved ==
    (pc = "read" /\ Truthy(dev_id_data_packet_complete))
        => dev_id_data_packet_complete \notin DOMAIN data_packets

\* C2: when a LastFrame completes a message for device d, the payload handed
\* to the decoder is bytes[4:7] of d's latest FirstFrame, then those of the
\* ConsecutiveFrames of d received since, then those of the LastFrame.
C2_LastFramePayload ==
    (Processed /\ Truthy(dev_id_data_packet_complete) /\ FrameType(data_frame) = 1)
        => /\ dev_id_data_packet_complete \in DOMAIN ff_hist
           /\ decod_lines # << >>
           /\ decod_lines[1].vals
                 = ff_hist[dev_id_data_packet_complete] \o Slice(data_frame, 4, 7)

\* C3: an 8-byte frame whose header matches a device-id rule takes the
\* reassembler transition of its frame type under the resolved id, for every
\* id 0..63: a SingleFrame completes a message for that id, a FirstFrame
\* opens the id with bytes[4:7].
C3_TransitionForEveryResolvedId ==
    (pc = "read" /\ Len(data_frame) = 8 /\ ResolveDevId(data_frame) # False_)
        => LET id == ResolveDevId(data_frame)
           IN  /\ FrameType(data_frame) = 3 => dev_id_data_packet_complete = id
               /\ FrameType(data_frame) = 2 =>
                     /\ id \in DOMAIN data_packets
                     /\ data_packets[id] = Slice(data_frame, 4, 7)

\* C5: a frame whose device id is unresolved, of any length and at any place
\* in the run, is written to the frame log (the filter apart), leaves the
\* mapping as it was, and the run goes on to the next burst.
C5_UnresolvedFrameLogged ==
    [][(pc = "parse" /\ ResolveDevId(data_frame) = False_ /\ ~Filtered(data_frame))
          => (pc' = "read" /\ demod_line' # << >> /\ data_packets' = data_packets)]_vars

\* C6: every completed message handed to the decoder ends in one of three
\* outcomes: telemetry for a key with a decode rule, a raw report for a key
\* outside the table, nothing for a static key carrying the expected bytes;
\* and the run does not halt.
C6_DecoderOutcomes ==
    (Processed /\ Truthy(dev_id_data_packet_complete))
        => /\ pc = "read"
           /\ outcome \in {"telemetry", "unknown", "static"}

\* C7: a frame is left out of the frame log exactly when the whole frame is
\* one of the six filter signatures.
C7_FilterWholeFrame ==
    (pc = "read" /\ data_frame # << >>)
        => ((demod_line = << >>) <=> (data_frame \in MSG_FILTER))

(***************************************************************************)
(* Properties of the sample-level specification.                           *)
(***************************************************************************)
\* the value the symbol loop read at its k-th position
Sampled(k) == data[peaks[k] + 1]

\* bit j (1 = first, MSB first) of the demodulated frame
FrameBit(j) == (data_frame[(j - 1) \div 8 + 1] \div (2 ^ (7 - ((j - 1) % 8)))) % 2

\* C4: a burst with no high peak or no low peak is skipped: mapping and
\* counters stay as they were and the next burst is awaited.
C4_NoPeaksBurstSkipped ==
    [][(/\ pc = "demod"
        /\ \/ FindPeaks(data, SeqMax(data)) = {}
           \/ FindPeaks(Invert(data), 255 - SeqMin(data)) = {})
          => (/\ pc' = "read"
              /\ data_packets' = data_packets
              /\ count_msg' = count_msg
              /\ count_crc_err' = count_crc_err)]_vars

\* C8 as claimed: a sample below the burst mean gives bit 0, a sample at or
\* above it gives bit 1.
C8_BelowMeanIsZero ==
    pc = "parse" =>
        \A k \in 1..Len(bits) :
            bits[k] = IF Sampled(k + 1) * MEAN.den < MEAN.num THEN 0 ELSE 1

\* C8 as amended: every sample of the polarity-resolved burst taken after
\* the start-of-frame position gives bit 1 when it is below the mean of the
\* burst as captured (taken before any inversion), and bit 0 when it is at
\* or above that mean.
C8_BelowMeanIsOne ==
    pc = "parse" =>
        /\ Len(bits) = Len(peaks) - 1
        /\ MEAN.den = Len(data_inv)
        /\ MEAN.num = 255 * Len(data_inv) - SeqSum(data_inv)
        /\ \A k \in 1..Len(bits) :
              bits[k] = IF Sampled(k + 1) * MEAN.den < MEAN.num THEN 1 ELSE 0

\* a frame whose bits hold a sample exactly at the mean (bit 0) and a sample
\* below it (bit 1)
C8_Witness ==
    /\ pc = "parse"
    /\ \E k \in 1..Len(bits) :
          Sampled(k + 1) * MEAN.den = MEAN.num /\ bits[k] = 0
    /\ \E k \in 1..Len(bits) :
          Sampled(k + 1) * MEAN.den < MEAN.num /\ bits[k] = 1

\* C9 as claimed: n sampled bits give floor((n - 1) / 8) bytes.
C9_WholeBytesOnly ==
    pc = "parse" => Len(data_frame) = (Len(peaks) - 1) \div 8

\* C9 as amended: n >= 2 sampled bits give ceil((n - 1) / 8) bytes: the first
\* bit is dropped, the rest are packed MSB first, and bits that do not fill a
\* byte make one more byte, zero in its low bits.  With n = 1 no bit is left
\* and the packing raises TypeError: no frame.
C9_LastByteZeroFilled ==
    /\ pc = "parse" =>
          /\ Len(peaks) >= 2
          /\ Len(bits) = Len(peaks) - 1
          /\ Len(data_frame) = (Len(bits) + 7) \div 8
          /\ \A j \in 1..(8 * Len(data_frame)) :
                FrameBit(j) = IF j <= Len(bits) THEN bits[j] ELSE 0
    /\ error = "TypeError" => pc = "crash" /\ Len(peaks) = 1 /\ bits = << >>

\* a frame whose last byte holds trailing bits, a 1 among them
C9_Witness ==
    /\ pc = "parse"
    /\ Len(bits) % 8 # 0
    /\ Len(data_frame) = Len(bits) \div 8 + 1
    /\ bits[Len(bits)] = 1

ChecksumClass(frame) ==
    IF Len(frame) <= 3 THEN "N/A"
    ELSE IF RefCrc(SubSeq(frame, 1, Len(frame) - 1)) = frame[Len(frame)] THEN "OK "
    ELSE "ERR"

SpeedMessage1a02 ==
    /\ Processed
    /\ dev_id_data_packet_complete = \h0d
    /\ decod_lines # << >>
    /\ Cmd(\h0d, decod_lines[1].vals) = \h0d3c08
    /\ Slice(decod_lines[1].vals, 2, 4) = <<\h1a, \h02>>

\* C14 as claimed: that message decodes to speed = 2.6 km/h.
C14_SpeedIs2p6 ==
    SpeedMessage1a02 =>
        /\ Len(decod_lines) = 2
        /\ decod_lines[2] = Line("telemetry", "speed", << 2, 6 >>, << >>)

\* C14 as amended: that message decodes to speed = 53.8 km/h: the two bytes
\* 1a 02 taken little-endian are 0x021a = 538, divided by 10.
C14_SpeedIs53p8 ==
    SpeedMessage1a02 =>
        /\ Len(decod_lines) = 2
        /\ decod_lines[2] = Line("telemetry", "speed", << 53, 8 >>, << >>)
        /\ dev_id_data_packet_complete \notin DOMAIN data_packets

\* the message has arrived as FirstFrame, ConsecutiveFrame, LastFrame
C14_Witness ==
    /\ SpeedMessage1a02
    /\ pc = "read"
    /\ FrameType(data_frame) = 1
    /\ outcome = "telemetry"

\* C15: whatever the mapping holds for device d, a SingleFrame for d
\* completes a message at once whose payload is bytes[4:7] of the frame, and
\* a FirstFrame for d sets d's payload to bytes[4:7] of the frame and
\* completes nothing.
C15_SingleAndFirstFrame ==
    [][(pc = "parse" /\ Len(data_frame) = 8 /\ ResolveDevId(data_frame) # False_) =>
          LET id == ResolveDevId(data_frame)
              part == Slice(data_frame, 4, 7)
          IN  /\ FrameType(data_frame) = 3 =>
                    /\ dev_id_data_packet_complete' = id
                    /\ decod_lines' # << >>
                    /\ decod_lines'[1].vals = part
              /\ FrameType(data_frame) = 2 =>
                    /\ id \in DOMAIN data_packets'
                    /\ data_packets'[id] = part
                    /\ dev_id_data_packet_complete' = None_]_vars

\* C16: a ConsecutiveFrame or LastFrame for a device id that has no entry in
\* the mapping leaves the whole mapping as it was, completes no message and
\* has nothing decoded.
C16_OrphanFrameDropped ==
    [][(/\ pc = "parse"
        /\ Len(data_frame) = 8
        /\ ResolveDevId(data_frame) # False_
        /\ FrameType(data_frame) \in {0, 1}
        /\ ResolveDevId(data_frame) \notin DOMAIN data_packets)
          => (/\ data_packets' = data_packets
              /\ dev_id_data_packet_complete' = None_
              /\ decod_lines' = << >>
              /\ outcome' = "idle")]_vars

\* a LastFrame has been parsed for a device that had no entry
C16_Witness ==
    /\ pc = "read"
    /\ Len(data_frame) = 8
    /\ FrameType(data_frame) = 1
    /\ Truthy(ResolveDevId(data_frame))
    /\ ResolveDevId(data_frame) \notin DOMAIN data_packets
    /\ dev_id_data_packet_complete = None_
    /\ decod_lines = << >>

\* C17: messages are decoded in the order in which their completing frames
\* arrive, each within the processing of the frame that completed it and so
\* before anything of a later burst is read: at every moment the messages
\* decoded are the messages completed, in the same order.
C17_DecodedInCompletionOrder ==
    /\ decoded = completed
    /\ Len(completed) <= hist_frames
    /\ (pc # "parse" /\ Truthy(dev_id_data_packet_complete)) =>
          /\ completed # << >>
          /\ completed[Len(completed)].id = dev_id_data_packet_complete
          /\ completed[Len(completed)].payload = decod_lines[1].vals

\* device 0x1a opens a message, device 0x0d completes one, then 0x1a's
\* message completes
C17_Witness ==
    /\ pc = "read"
    /\ Len(decoded) = 2
    /\ decoded[1].id = \h0d
    /\ decoded[2].id = \h1a
    /\ Len(decoded[2].payload) = 6

\* C18: the run ends in one way only, the end of the input, and then with
\* the summary printed: it never stops on anything a burst or a frame holds.
C18_EndOfInputOnlyEnd ==
    /\ pc \in {"read", "demod", "parse", "exit"}
    /\ error = ""
    /\ pc = "exit" <=> summary # << >>

\* C19: a frame-log line that shows a frame-type label, a counter and a
\* reserved bit shows those of byte index 3 of the frame it logs.
C19_LogShowsOwnHeader ==
    (pc = "read" /\ demod_line # << >> /\ demod_line[1].ext # << >>)
        => demod_line[1].ext[1]
              = [frame_type_str |-> FrameTypeStr(FrameType(data_frame)),
                 counter |-> data_frame[4] % 32,
                 reserved |-> (data_frame[4] \div 32) % 2]

\* the frame with its last byte replaced by the CRC of the bytes before it
WithChecksum(frame) ==
    [frame EXCEPT ![Len(frame)] = RefCrc(SubSeq(frame, 1, Len(frame) - 1))]

\* C20: an 8-byte frame with a resolved device id and a wrong checksum takes
\* the mapping through the transition, and has completed and decoded, what
\* the same frame with the right checksum would; the error shows only in the
\* counter and in the ERR label.
C20_ChecksumNeverGates ==
    [][(/\ pc = "parse"
        /\ Len(data_frame) = 8
        /\ ResolveDevId(data_frame) # False_
        /\ ChecksumClass(data_frame) = "ERR")
          => LET good == WithChecksum(data_frame)
                 id == ResolveDevId(good)
                 r == Reassemble(data_packets, id, good,
                                 [frame_type_str |-> frame_type_str,
                                  counter |-> counter, reserved |-> reserved])
                 d == Decode(r.packets, r.complete, str1)
             IN  /\ ChecksumClass(good) = "OK "
                 /\ data_packets' = d.packets
                 /\ dev_id_data_packet_complete' = r.complete
                 /\ decod_lines' = d.lines
                 /\ outcome' = d.outcome
                 /\ count_crc_err' = count_crc_err + 1
                 /\ demod_line' # << >> => demod_line'[1].crc = "ERR"]_vars

\* a SingleFrame with a wrong checksum has been logged as ERR, completed and
\* decoded as telemetry
C20_Witness ==
    /\ pc = "read"
    /\ Len(data_frame) = 8
    /\ ChecksumClass(data_frame) = "ERR"
    /\ demod_line # << >>
    /\ demod_line[1].crc = "ERR"
    /\ Truthy(dev_id_data_packet_complete)
    /\ outcome = "telemetry"
    /\ decod_lines[1].vals = Slice(data_frame, 4, 7)

(***************************************************************************)
(* Properties of the end of the stream.                                    *)
(***************************************************************************)
\* C21: when the input ends with samples pending in the buffer, the buffer
\* is never emitted, whatever its length: a burst is emitted only by the
\* read of a quiet chunk, the end of the input leaves the buffer, the
\* counters, the log, the decoder output and the mapping as they are and
\* prints the counters, and nothing happens after it; messages still open in
\* the mapping are never decoded.
C21_PendingBufferNeverEmitted ==
    [][/\ pc # "exit"
       /\ pc' = "demod" => (nread' = nread + 1 /\ Quiet(buf'))
       /\ pc' = "exit" =>
             /\ pc = "read"
             /\ data' = data
             /\ count_msg' = count_msg
             /\ count_crc_err' = count_crc_err
             /\ hist_frames' = hist_frames
             /\ data_frame' = data_frame
             /\ demod_line' = demod_line
             /\ decod_lines' = decod_lines
             /\ decoded' = decoded
             /\ completed' = completed
             /\ data_packets' = data_packets
             /\ summary' = << count_msg, count_crc_err >>]_vars

\* the run has ended with a buffer of burst length pending and a message
\* open in the mapping
C21_Witness ==
    /\ pc = "exit"
    /\ Len(data) >= ADC_SAMPLES_FOR_3_BYTE_MSG
    /\ Len(data) < ADC_SAMPLES_FOR_TOO_LONG_MSG
    /\ DOMAIN data_packets # {}
    /\ summary = << hist_frames, hist_mismatch >>
    /\ decoded = << >>

====
